---- MODULE Spec2Model ----
(***************************************************************************)
(* Payment orchestration service: idempotency engine, CreatePayment, the   *)
(* payment lifecycle use cases and the repository they persist through.    *)
(*                                                                         *)
(* Every request is a process.  One action is one access of the request to *)
(* the state requests share (the cache, the store), together with the      *)
(* local computation and the calls to the provider and to the bus that     *)
(* surround it: those touch nothing another request reads.                 *)
(*                                                                         *)
(*   Spec      CreatePayment requests running through IdempotencyService   *)
(*   SpecLife  Resolve / Cancel / Success / Failure / Timeout requests on  *)
(*             a payment that CreatePayment has created                    *)
(*   SpecHook  bus deliveries of provider events to PaymentEventConsumer   *)
(*   SpecSweep sweeper runs, expiration listeners and SuccessPayment on    *)
(*             two payments that CreatePayment has created                 *)
(*   SpecCron  the sweeper firing every minute for ever, with fairness     *)
(*   SpecIngress the webhook endpoints, the bus and PaymentEventConsumer    *)
(*   SpecSession CreatePayment followed by Resolve / Cancel / Success /    *)
(*             Failure on the payment it stored                            *)
(*   SpecRedeliver the provider delivering the event of a capture for ever, *)
(*             with fairness                                               *)
(*   SpecTerminal the sweeper firing for ever while clients resolve, with  *)
(*             fairness                                                    *)
(*   SpecProvider the amounts and the provider adapter of CreatePayment    *)
(*             callbacks running on one instance                           *)
(***************************************************************************)
EXTENDS Integers, FiniteSets, Sequences, TLC

\* ------------------------------------------------------------------ bounds
\* requests in flight at the same time
NumProcs == 2
Procs == 1..NumProcs
\* requests started in a behaviour
MaxCalls == 2
\* idempotency keys the callers choose from
NumKeys == 1
Keys == 1..NumKeys
NoKey == 0
\* key of the CreatePayment call that made the payment SpecLife starts with
CreateKey == NumKeys + 1

\* ------------------------------------------------------------- identifiers
\* uuidv4() of a Payment, uuidV4() of a session and the provider's order id:
\* a request creates at most one of each, numbered in the order of creation.
PaymentId(n) == <<"pay", n>>
SessionId(n) == <<"sess", n>>
ProviderOrderId(n) == <<"order", n>>
NoId == <<>>

PaymentIds == {PaymentId(n) : n \in 0..MaxCalls}
ProviderOrderIds == {ProviderOrderId(n) : n \in 0..MaxCalls}

\* --------------------------------------------------------- Payment aggregate
PaymentStatus == {"pending", "success", "failed", "resolved", "cancelled", "expired"}

ALLOWED_PAYMENT_TRANSITIONS ==
  [s \in PaymentStatus |->
     CASE s = "pending"  -> {"resolved", "cancelled", "expired", "failed", "success"}
       [] s = "resolved" -> {"failed", "success"}
       [] OTHER          -> {}]

\* CreatePaymentUseCase.PAYMENT_TIMEOUT_MS
PAYMENT_TIMEOUT_MS == 600000

\* a date that is not set (undefined)
NoDate == -1

\* a > b on dates: false when a is not set
IsAfter(a, b) == a # NoDate /\ a > b

\* no aggregate loaded (null)
NoPayment ==
  [id |-> NoId, key |-> NoKey, status |-> "", poid |-> NoId, sessions |-> {},
   createdAt |-> NoDate, expiresAt |-> NoDate]

\* Payment.create(..., new Date(Date.now() + PAYMENT_TIMEOUT_MS)): a new
\* aggregate is PENDING and has no sessions; the clock reads n ms when payment
\* n is constructed
PaymentCreate(n, k) ==
  [id |-> PaymentId(n), key |-> k, status |-> "pending", poid |-> NoId, sessions |-> {},
   createdAt |-> n, expiresAt |-> n + PAYMENT_TIMEOUT_MS]

\* new PaymentProviderSession(...): status defaults to CREATED
NewProviderSession(n) ==
  [sid |-> SessionId(n), poid |-> ProviderOrderId(n), st |-> "created"]

addProviderSession(p, s) == [p EXCEPT !.sessions = @ \cup {s}]

setProviderOrderId(p, id) == [p EXCEPT !.poid = id]

\* _transitionTo: the guard and the assignment
CanTransition(p, nextStatus) == nextStatus \in ALLOWED_PAYMENT_TRANSITIONS[p.status]

transitionTo(p, nextStatus) == [p EXCEPT !.status = nextStatus]

\* markCancel also records the provider order id
markCancel(p, providerOrderId) ==
  [transitionTo(p, "cancelled") EXCEPT !.poid = providerOrderId]

\* getSessionByProviderSessionId: the sessions with that provider order id
getSessionByProviderSessionId(p, providerSessionId) ==
  {s \in p.sessions : s.poid = providerSessionId}

\* getProviderSessionById: the sessions with that session id
getProviderSessionById(p, sessionId) == {s \in p.sessions : s.sid = sessionId}

\* session.updateStatus(status) on the sessions found
updateStatus(p, found, status) ==
  [p EXCEPT !.sessions = {IF s \in found THEN [s EXCEPT !.st = status] ELSE s : s \in @}]

isTerminalState(p) == p.status \in {"success", "failed", "cancelled", "expired"}

\* ---------------------------------------------------------------- variables
VARIABLES
  calls,       \* number of requests started so far
  nids,        \* ids handed out so far (payment, session and provider order ids)
  pc,          \* [Procs -> step of the request]
  op,          \* [Procs -> use case the request runs]
  nkeys,       \* number of distinct idempotency keys used so far
  ikey,        \* [Procs -> idempotency key of the request (NoKey when it has none)]
  arg,         \* [Procs -> providerOrderId / paymentId the request names]
  agg,         \* [Procs -> the Payment aggregate the request holds in memory]
  ret,         \* [Procs -> value the request returns (Resolve and Cancel: what the
               \*            adapter came back with, from then until the return)]
  out,         \* [Procs -> how the request ended]
  threw,       \* [Procs -> the callback raised]
  lock,        \* [Keys -> 0 (no lock:idempotency:k) or the request that set it]
  result,      \* [Keys -> content of result:idempotency:k, {} when absent]
  db,          \* rows of table payments
  cache,       \* [CacheKeys -> cached entity of the repository, {} when absent]
  produced,    \* [EventTypes \X PaymentIds -> number of messages produced]
  providerSessions, \* sessions created at the provider: <<providerOrderId, key>>
  timeoutKeys, \* payments:timeout:{paymentId} keys that are set
  returnedLive, \* [Keys -> results returned by executions since result:k last expired]
  ev,          \* [Procs -> providerEventId of the bus delivery (NoEvent when it is none)]
  batch,       \* [Procs -> payments a sweeper run has still to handle]
  processed,   \* providerEventIds whose event:processed key is set
  bus,         \* provider events published to the topic of provider events
  prov,        \* [Procs -> provider of the bus delivery ("" when none is recorded)]
  marked,      \* history: <<provider, providerEventId>> of the deliveries that
               \* reached markAsProcessed
  paypalCert,  \* the paypal_cert:{sha256(certUrl)} entry is set
  sent,        \* the lifecycle events published: [type, paymentId, source]
  cr,          \* [Procs -> the amounts and the adapter of a CreatePayment callback]
  strategy,    \* StrategyContext.strategy, one field for all requests
  order        \* [Procs -> order.status of the order the callback in flight has fetched]

vars == <<calls, nkeys, nids, pc, op, ikey, arg, agg, ret, out, threw, lock, result, db,
          cache, produced, providerSessions, timeoutKeys, returnedLive, ev, batch,
          processed, bus, prov, marked, paypalCert, sent, cr, strategy, order>>

\* state of the provider side of CreatePayment
createVars == <<cr, strategy>>

\* Number(undefined), the providerAmount of a session built from a response
\* that has none
NaN == -1

NoStrategy == ""

\* no order fetched yet
NoOrder == ""

\* a CreatePayment callback that has not started
NoRequest ==
  [pc |-> "idle", provider |-> "", currency |-> "", amount |-> 0, items |-> <<>>,
   money |-> 0, moneyCurrency |-> "", total |-> 0, via |-> NoStrategy, tries |-> 0,
   response |-> {}, providerAmount |-> NaN, error |-> ""]

\* state of the webhook consumer and of the sweeper
ingressVars == <<ev, batch, processed, bus, prov, marked, paypalCert>>

\* what a request that is no bus delivery leaves alone
hookVars == <<processed, bus, prov, marked, paypalCert>>

NoEvent == 0

procVars == <<calls, nkeys, nids, pc, op, ikey, arg, agg, ret, out, threw>>

EventTypes == {"initiated", "succeeded", "failed", "timeout"}

CacheKeys ==
  ({"id"} \X PaymentIds) \cup ({"poid"} \X ProviderOrderIds)
    \cup ({"idem"} \X (Keys \cup {CreateKey, CreateKey + 1}))

NoResult == [paymentId |-> NoId, poid |-> NoId, status |-> ""]

\* ------------------------------------------------------------ serialisation
\* JSON.stringify / JSON.parse of a use case result: the string is the
\* sequence of the object's values, the empty string is <<>>.
JSONstringify(r) == <<r.paymentId, r.poid, r.status>>

JSONparse(s) == [paymentId |-> s[1], poid |-> s[2], status |-> s[3]]

\* JavaScript truthiness of a string
Truthy(s) == s # <<>>

\* -------------------------------------------------------------- repository
\* toEntity: the columns the mapper copies (the sessions and expiresAt are not
\* among them)
toEntity(p) ==
  [id |-> p.id, key |-> p.key, status |-> p.status, poid |-> p.poid, createdAt |-> p.createdAt]

\* (mutant) column idempotencyKey without its unique constraint
UniqueViolation_NoConstraint(rows, e) == FALSE

\* the unique constraint of column idempotencyKey
UniqueViolation(rows, e) == \E r \in rows : r.key = e.key /\ r.id # e.id

\* save: repo.save(entity) inserts the row or overwrites the one with its id
SaveRows(rows, e) == {r \in rows : r.id # e.id} \cup {e}

\* (mutant) a mapper that hydrates two sessions of the payment's provider order
toDomain_WithSessions(e) ==
  [id |-> e.id, key |-> e.key, status |-> e.status, poid |-> e.poid,
   sessions |-> {[sid |-> SessionId(n), poid |-> e.poid, st |-> "created"] : n \in {0, 1}},
   createdAt |-> e.createdAt, expiresAt |-> NoDate]

\* toDomain: a new Payment with the columns of the entity; setStatus assigns
\* the status without a guard; the aggregate comes back without sessions;
\* Payment.create gets entity.paymentGateway, which the entity does not have,
\* where it takes expiresAt, and no setter is called for expiresAt
toDomain(e) ==
  [id |-> e.id, key |-> e.key, status |-> e.status, poid |-> e.poid, sessions |-> {},
   createdAt |-> e.createdAt, expiresAt |-> NoDate]

\* findByIdempotencyKey: the cached entity if there is one, else the row
FindByIdempotencyKey(k) ==
  IF cache[<<"idem", k>>] # {}
    THEN cache[<<"idem", k>>]
    ELSE {r \in db : r.key = k}

CacheAfterFindByIdempotencyKey(k) ==
  IF cache[<<"idem", k>>] = {} /\ {r \in db : r.key = k} # {}
    THEN [cache EXCEPT ![<<"idem", k>>] = {r \in db : r.key = k}]
    ELSE cache

\* ---------------------------------------------------------------------- Init
Init ==
  /\ calls = 0
  /\ nkeys = 0
  /\ nids = 0
  /\ pc = [c \in Procs |-> "idle"]
  /\ op = [c \in Procs |-> ""]
  /\ ikey = [c \in Procs |-> NoKey]
  /\ arg = [c \in Procs |-> NoId]
  /\ agg = [c \in Procs |-> NoPayment]
  /\ ret = [c \in Procs |-> NoResult]
  /\ out = [c \in Procs |-> ""]
  /\ threw = [c \in Procs |-> FALSE]
  /\ lock = [k \in Keys |-> 0]
  /\ result = [k \in Keys |-> {}]
  /\ db = {}
  /\ cache = [ck \in CacheKeys |-> {}]
  /\ produced = [e \in EventTypes \X PaymentIds |-> 0]
  /\ providerSessions = {}
  /\ timeoutKeys = {}
  /\ returnedLive = [k \in Keys |-> {}]
  /\ ev = [c \in Procs |-> NoEvent]
  /\ batch = [c \in Procs |-> <<>>]
  /\ processed = {}
  /\ bus = {}
  /\ prov = [c \in Procs |-> ""]
  /\ marked = {}
  /\ paypalCert = FALSE
  /\ cr = [c \in Procs |-> NoRequest]
  /\ strategy = NoStrategy
  /\ order = [c \in Procs |-> NoOrder]
  /\ sent = {}

\* ------------------------------------------------------- IdempotencyService
\* first step of the use case body wrapped by check()
FirstStep(o) == IF o = "create" THEN "session" ELSE "load"

\* request slots are interchangeable: a request takes the first free one
FreeSlot(c) ==
  /\ pc[c] \in {"idle", "done"}
  /\ \A d \in Procs : d < c => pc[d] \notin {"idle", "done"}

\* redis.lock: SET key 'locked' PX ttl NX
LockAcquired(k) == lock[k] = 0

\* (mutant) unlock that leaves the key in place
UnlockKey_Noop(k) == lock

\* redis.unlock: DEL key
UnlockKey(k) == [lock EXCEPT ![k] = 0]

\* check(): redis.get(resultKey); a cached result is returned without the callback
CheckGet(c, o, k, a) ==
  /\ FreeSlot(c)
  /\ calls < MaxCalls
  /\ calls' = calls + 1
  /\ nkeys' = IF k > nkeys THEN k ELSE nkeys
  /\ nids' = nids
  /\ agg' = [agg EXCEPT ![c] = NoPayment]
  /\ threw' = [threw EXCEPT ![c] = FALSE]
  /\ op' = [op EXCEPT ![c] = o]
  /\ ikey' = [ikey EXCEPT ![c] = k]
  /\ arg' = [arg EXCEPT ![c] = a]
  /\ IF \E s \in result[k] : Truthy(s)
       THEN /\ \E s \in result[k] : ret' = [ret EXCEPT ![c] = JSONparse(s)]
            /\ out' = [out EXCEPT ![c] = "cached"]
            /\ pc' = [pc EXCEPT ![c] = "done"]
       ELSE /\ pc' = [pc EXCEPT ![c] = "lock"]
            /\ ret' = [ret EXCEPT ![c] = NoResult]
            /\ out' = [out EXCEPT ![c] = ""]
  /\ ev' = [ev EXCEPT ![c] = NoEvent]
  /\ batch' = [batch EXCEPT ![c] = <<>>]
  /\ UNCHANGED <<lock, result, db, cache, produced, sent, createVars, order, providerSessions,
                 timeoutKeys, returnedLive, hookVars>>

\* check(): redis.lock(lockKey, 30000); no lock raises IdempotencyException
CheckLock(c) ==
  /\ pc[c] = "lock"
  /\ IF LockAcquired(ikey[c])
       THEN /\ lock' = [lock EXCEPT ![ikey[c]] = c]
            /\ pc' = [pc EXCEPT ![c] = FirstStep(op[c])]
            /\ out' = out
       ELSE /\ out' = [out EXCEPT ![c] = "in_progress"]
            /\ pc' = [pc EXCEPT ![c] = "done"]
            /\ lock' = lock
  /\ UNCHANGED <<calls, nkeys, nids, op, ikey, arg, agg, ret, threw, result, db, cache, produced, sent, createVars, order,
                 providerSessions, timeoutKeys, returnedLive, ingressVars>>

\* check(): redis.set(resultKey, JSON.stringify(result), 86400)
CheckSet(c) ==
  /\ pc[c] = "set"
  /\ result' = [result EXCEPT ![ikey[c]] = {JSONstringify(ret[c])}]
  /\ pc' = [pc EXCEPT ![c] = "unlock"]
  /\ UNCHANGED <<calls, nkeys, nids, op, ikey, arg, agg, ret, out, threw, lock, db, cache, produced, sent, createVars, order,
                 providerSessions, timeoutKeys, returnedLive, ingressVars>>

\* check(): finally redis.unlock(lockKey), then the result is returned or the
\* exception of the callback propagates
CheckUnlock(c) ==
  /\ pc[c] = "unlock"
  /\ lock' = UnlockKey(ikey[c])
  /\ pc' = [pc EXCEPT ![c] = "done"]
  /\ out' = [out EXCEPT ![c] = IF threw[c] THEN "raised" ELSE "ok"]
  /\ returnedLive' = IF threw[c] THEN returnedLive
                     ELSE [returnedLive EXCEPT ![ikey[c]] = @ \cup {ret[c]}]
  /\ agg' = [agg EXCEPT ![c] = NoPayment]
  /\ order' = [order EXCEPT ![c] = NoOrder]
  /\ UNCHANGED <<calls, nkeys, nids, op, ikey, arg, ret, threw, result, db, cache, produced, sent,
                 createVars, providerSessions, timeoutKeys, ingressVars>>

\* the 30 s TTL of lock:idempotency:k runs out
LockExpire(k) ==
  /\ lock[k] # 0
  /\ lock' = [lock EXCEPT ![k] = 0]
  /\ UNCHANGED <<procVars, result, db, cache, produced, sent, createVars, order, providerSessions, timeoutKeys,
                 returnedLive, ingressVars>>

\* the 24 h TTL of result:idempotency:k runs out (not within the one cache
\* round trip between storing a result and returning it)
ResultExpire(k) ==
  /\ result[k] # {}
  /\ ~\E c \in Procs : ikey[c] = k /\ pc[c] = "unlock" /\ ~threw[c]
  /\ result' = [result EXCEPT ![k] = {}]
  /\ returnedLive' = [returnedLive EXCEPT ![k] = {}]
  /\ UNCHANGED <<calls, nkeys, nids, pc, op, ikey, arg, agg, ret, out, threw, lock, db, cache,
                 produced, sent, createVars, order, providerSessions, timeoutKeys, ingressVars>>

\* the 1 h TTL of a repository cache entry runs out, for the entries whose
\* expiry a later read can tell: cache:payment:{id} is rewritten with every
\* write of its row, cache:payment:idempotency:{k} is read by CreatePayment(k)
CacheExpire(ck) ==
  /\ ck[1] # "id"
  /\ ck[1] = "idem" => ck[2] \in Keys
  /\ cache[ck] # {}
  /\ cache' = [cache EXCEPT ![ck] = {}]
  /\ UNCHANGED <<procVars, lock, result, db, produced, sent, createVars, order, providerSessions, timeoutKeys,
                 returnedLive, ingressVars>>

\* the callback raises: control goes to the finally block of check()
Raise(c) ==
  /\ pc' = [pc EXCEPT ![c] = "unlock"]
  /\ threw' = [threw EXCEPT ![c] = TRUE]

\* ------------------------------------------------------ CreatePaymentUseCase
\* order.status of the orders requests are made for: two of the statuses the
\* check lets through and two it refuses
OrderStatuses == {"created", "pending_payment", "paid", "cancelled"}

allowedStatuses_WithPaid == {"created", "processing", "pending", "pending_payment", "paid"}

allowedStatuses == {"created", "processing", "pending", "pending_payment"}

\* getOrder and the order status check, getCourseItems, findByIdempotencyKey,
\* strategyContext.createPayment (with its retries), Payment.create when no
\* payment was found, addProviderSession, setProviderOrderId
CreateSession(c) ==
  /\ pc[c] = "session"
  /\ op[c] = "create"
  /\ \E orderStatus \in OrderStatuses, providerOk \in BOOLEAN :
       LET found == FindByIdempotencyKey(ikey[c])
           p == IF found = {} THEN PaymentCreate(nids + 1, ikey[c])
                ELSE toDomain(CHOOSE r \in found : TRUE)
       IN  /\ order' = [order EXCEPT ![c] = orderStatus]
           /\ IF orderStatus \notin allowedStatuses
                THEN /\ Raise(c)
                     /\ UNCHANGED <<agg, cache, providerSessions, nids>>
              ELSE IF ~providerOk
                THEN /\ Raise(c)
                     /\ cache' = CacheAfterFindByIdempotencyKey(ikey[c])
                     /\ UNCHANGED <<agg, providerSessions, nids>>
              ELSE /\ cache' = CacheAfterFindByIdempotencyKey(ikey[c])
                   /\ nids' = nids + 1
                   /\ providerSessions' =
                        providerSessions \cup {<<ProviderOrderId(nids + 1), ikey[c]>>}
                   /\ agg' = [agg EXCEPT ![c] =
                        setProviderOrderId(addProviderSession(p, NewProviderSession(nids + 1)),
                                           ProviderOrderId(nids + 1))]
                   /\ pc' = [pc EXCEPT ![c] = "save"]
                   /\ threw' = threw
  /\ UNCHANGED <<calls, nkeys, op, ikey, arg, ret, out, lock, result, db, produced, sent, createVars,
                 timeoutKeys, returnedLive, ingressVars>>

\* the source field of the event value a use case hands to kafkaProducer.produce;
\* NoSource when the value has no such field
NoSource == ""

\* the source of the event the timeout use case publishes
TimeoutEventSource == "payment-service"

EventSource(o) ==
  CASE o = "cancel" -> NoSource
    [] o \in {"timeout", "sweep"} -> TimeoutEventSource
    [] OTHER -> "payment-service"

\* the message on a lifecycle topic, as far as the claims look at it
LifecycleEvent(type, id, o) == [type |-> type, id |-> id, source |-> EventSource(o)]

\* mapToResponse(payment, paymentResponse)
mapToResponse(p) == [paymentId |-> p.id, poid |-> p.poid, status |-> p.status]

\* paymentRepository.save(payment), schedulePaymentTimeout (which sets no key
\* for a payment without expiresAt),
\* kafkaProducer.produce(PaymentOrderInitiated), return
CreateSave(c) ==
  /\ pc[c] = "save"
  /\ IF UniqueViolation(db, toEntity(agg[c]))
       THEN /\ Raise(c)
            /\ UNCHANGED <<db, cache, timeoutKeys, produced, sent, createVars, order, ret>>
       ELSE /\ db' = SaveRows(db, toEntity(agg[c]))
            /\ cache' = [cache EXCEPT ![<<"id", agg[c].id>>] = {toEntity(agg[c])}]
            /\ timeoutKeys' = IF agg[c].expiresAt = NoDate THEN timeoutKeys
                              ELSE timeoutKeys \cup {agg[c].id}
            /\ \E produceOk \in BOOLEAN :
                 IF ~produceOk
                   THEN /\ Raise(c)
                        /\ UNCHANGED <<produced, sent, createVars, order, ret>>
                   ELSE /\ produced' = [produced EXCEPT ![<<"initiated", agg[c].id>>] = @ + 1]
                        /\ sent' = sent \cup {LifecycleEvent("initiated", agg[c].id, "create")}
                        /\ UNCHANGED <<createVars, order>>
                        /\ ret' = [ret EXCEPT ![c] = mapToResponse(agg[c])]
                        /\ pc' = [pc EXCEPT ![c] = "set"]
                        /\ threw' = threw
  /\ UNCHANGED <<calls, nkeys, nids, op, ikey, arg, agg, out, lock, result,
                 providerSessions, returnedLive, ingressVars>>

\* -------------------------------------------------------- repository reads
\* findByProviderOrderId: the cached entity if there is one, else the row
FindByProviderOrderId(o) ==
  IF cache[<<"poid", o>>] # {}
    THEN cache[<<"poid", o>>]
    ELSE {r \in db : r.poid = o}

CacheAfterFindByProviderOrderId(o) ==
  IF cache[<<"poid", o>>] = {} /\ {r \in db : r.poid = o} # {}
    THEN [cache EXCEPT ![<<"poid", o>>] = {r \in db : r.poid = o}]
    ELSE cache

\* findById: the cached entity if there is one, else the row
FindById(id) ==
  IF cache[<<"id", id>>] # {}
    THEN cache[<<"id", id>>]
    ELSE {r \in db : r.id = id}

\* update: repo.update({id}, entity) overwrites the row with that id
UpdateRows(rows, e) == {IF r.id = e.id THEN e ELSE r : r \in rows}

\* update: the two cache entries it rewrites
CacheAfterUpdate(e) ==
  [cache EXCEPT ![<<"id", e.id>>] = {e}, ![<<"idem", e.key>>] = {e}]

\* ------------------------------------------------------------ lifecycle calls
\* PaymentTimeoutSweeper: after an item of the batch the loop goes on
SweepAfterReturn(rest) == IF rest = <<>> THEN "done" ELSE "next"

\* (mutant) a sweeper whose catch block ends the run
SweepAfterError_Abort(rest) == "done"

\* PaymentTimeoutSweeper: the catch block logs and the loop goes on
SweepAfterError(rest) == IF rest = <<>> THEN "done" ELSE "next"

\* (mutant) a catch block without its return: control reaches markAsProcessed
HandleAfterError_Mark == "mark"

\* PaymentEventConsumer.handle: the catch block logs and returns
HandleAfterError == "done"

\* an exception leaves a use case that is not wrapped by check(): the sweeper
\* and the webhook consumer catch it, any other caller gets it
Throw(c) ==
  /\ agg' = [agg EXCEPT ![c] = NoPayment]
  /\ threw' = [threw EXCEPT ![c] = TRUE]
  /\ IF op'[c] = "sweep"
       THEN /\ pc' = [pc EXCEPT ![c] = SweepAfterError(batch'[c])]
            /\ out' = [out EXCEPT ![c] =
                 IF SweepAfterError(batch'[c]) = "done" THEN "ok" ELSE ""]
     ELSE IF ev'[c] # NoEvent
       THEN /\ pc' = [pc EXCEPT ![c] = HandleAfterError]
            /\ out' = [out EXCEPT ![c] = IF HandleAfterError = "done" THEN "ok" ELSE ""]
     ELSE /\ pc' = [pc EXCEPT ![c] = "done"]
          /\ out' = [out EXCEPT ![c] = "raised"]

\* a use case that is not wrapped by check() returns: the sweeper goes on with
\* its batch, the webhook consumer goes on to markAsProcessed
Return(c) ==
  /\ agg' = [agg EXCEPT ![c] = NoPayment]
  /\ threw' = [threw EXCEPT ![c] = FALSE]
  /\ IF op'[c] = "sweep"
       THEN /\ pc' = [pc EXCEPT ![c] = SweepAfterReturn(batch'[c])]
            /\ out' = [out EXCEPT ![c] =
                 IF SweepAfterReturn(batch'[c]) = "done" THEN "ok" ELSE ""]
     ELSE IF ev'[c] # NoEvent
       THEN /\ pc' = [pc EXCEPT ![c] = "mark"]
            /\ out' = out
     ELSE /\ pc' = [pc EXCEPT ![c] = "done"]
          /\ out' = [out EXCEPT ![c] = "ok"]

\* a webhook or timer dispatches a use case that is not wrapped by check()
Dispatch(c, o, a) ==
  /\ FreeSlot(c)
  /\ calls < MaxCalls
  /\ calls' = calls + 1
  /\ nids' = nids
  /\ op' = [op EXCEPT ![c] = o]
  /\ ikey' = [ikey EXCEPT ![c] = NoKey]
  /\ arg' = [arg EXCEPT ![c] = a]
  /\ ret' = [ret EXCEPT ![c] = NoResult]
  /\ ev' = [ev EXCEPT ![c] = NoEvent]
  /\ batch' = [batch EXCEPT ![c] = <<>>]
  /\ UNCHANGED nkeys

\* what strategyContext.resolvePayment and cancelPayment can come back with
ResolveOutcomes == {"verified", "unverified", "throws"}

CancelOutcomes == {"success", "refused", "throws"}

\* the ResolvePaymentResult of an outcome
ResolveResult(p, o, res) ==
  [paymentId |-> p.id, poid |-> o, status |-> IF res = "verified" THEN "success" ELSE "failed"]

\* ResolvePaymentUseCase: findByProviderOrderId (NotFound when there is none),
\* strategyContext.resolvePayment (with its retries), the session becomes
\* CAPTURED, markResolved unless the payment is terminal (_transitionTo raises
\* when the edge is not allowed)
ResolveLoad(c) ==
  /\ pc[c] = "load"
  /\ op[c] = "resolve"
  /\ IF FindByProviderOrderId(arg[c]) = {}
       THEN /\ Raise(c)
            /\ UNCHANGED <<agg, cache, ret>>
       ELSE \E res \in ResolveOutcomes :
              LET found == toDomain(CHOOSE r \in FindByProviderOrderId(arg[c]) : TRUE)
                  p == updateStatus(found, getSessionByProviderSessionId(found, arg[c]), "captured")
              IN  /\ cache' = CacheAfterFindByProviderOrderId(arg[c])
                  /\ IF res = "throws"
                       THEN /\ Raise(c)
                            /\ UNCHANGED <<agg, ret>>
                     ELSE IF isTerminalState(p)
                       THEN /\ agg' = [agg EXCEPT ![c] = p]
                            /\ ret' = [ret EXCEPT ![c] = ResolveResult(p, arg[c], res)]
                            /\ pc' = [pc EXCEPT ![c] = "update"]
                            /\ threw' = threw
                     ELSE IF CanTransition(p, "resolved")
                       THEN /\ agg' = [agg EXCEPT ![c] = transitionTo(p, "resolved")]
                            /\ ret' = [ret EXCEPT ![c] = ResolveResult(p, arg[c], res)]
                            /\ pc' = [pc EXCEPT ![c] = "update"]
                            /\ threw' = threw
                     ELSE /\ Raise(c)
                          /\ ret' = [ret EXCEPT ![c] = ResolveResult(p, arg[c], res)]
                          /\ agg' = agg
  /\ UNCHANGED <<calls, nkeys, nids, op, ikey, arg, out, lock, result, db, produced, sent, createVars, order,
                 providerSessions, timeoutKeys, returnedLive, ingressVars>>

\* the PaymentFailureResult the adapter's cancelPayment came back with
CancelResponse(res) == [paymentId |-> NoId, poid |-> NoId, status |-> res]

\* (mutant) a use case that does not look at response.success
CancelAccepted_Any(response) == TRUE

\* if (!response.success) throw
CancelAccepted(response) == response.status = "success"

\* CancelPaymentUseCase: findByProviderOrderId, only a PENDING payment goes on,
\* strategyContext.cancelPayment (with its retries), a response without success
\* raises, the session found by getProviderSessionById becomes FAILED, markCancel
CancelLoad(c) ==
  /\ pc[c] = "load"
  /\ op[c] = "cancel"
  /\ IF FindByProviderOrderId(arg[c]) = {}
       THEN /\ Raise(c)
            /\ UNCHANGED <<agg, cache, ret>>
       ELSE \E res \in CancelOutcomes :
              LET found == toDomain(CHOOSE r \in FindByProviderOrderId(arg[c]) : TRUE)
                  p == updateStatus(found, getProviderSessionById(found, arg[c]), "failed")
              IN  /\ cache' = CacheAfterFindByProviderOrderId(arg[c])
                  /\ IF found.status # "pending" \/ res = "throws"
                       THEN /\ Raise(c)
                            /\ UNCHANGED <<agg, ret>>
                     ELSE IF ~CancelAccepted(CancelResponse(res)) \/ ~CanTransition(p, "cancelled")
                       THEN /\ Raise(c)
                            /\ ret' = [ret EXCEPT ![c] = CancelResponse(res)]
                            /\ agg' = agg
                       ELSE /\ agg' = [agg EXCEPT ![c] = markCancel(p, arg[c])]
                            /\ ret' = [ret EXCEPT ![c] = CancelResponse(res)]
                            /\ pc' = [pc EXCEPT ![c] = "update"]
                            /\ threw' = threw
  /\ UNCHANGED <<calls, nkeys, nids, op, ikey, arg, out, lock, result, db, produced, sent, createVars, order,
                 providerSessions, timeoutKeys, returnedLive, ingressVars>>

\* SuccessPaymentUseCase: findByProviderOrderId, the status check, the session
\* found by getProviderSessionById becomes FAILED, markSucceed
SuccessUseCase(c, a) ==
  IF FindByProviderOrderId(a) = {}
    THEN /\ Throw(c)
         /\ cache' = cache
    ELSE LET p == toDomain(CHOOSE r \in FindByProviderOrderId(a) : TRUE)
             q == updateStatus(p, getProviderSessionById(p, a), "failed")
         IN  /\ cache' = CacheAfterFindByProviderOrderId(a)
             /\ IF p.status \notin {"resolved", "pending"} \/ ~CanTransition(q, "success")
                  THEN Throw(c)
                  ELSE /\ agg' = [agg EXCEPT ![c] = transitionTo(q, "success")]
                       /\ pc' = [pc EXCEPT ![c] = "update"]
                       /\ threw' = [threw EXCEPT ![c] = FALSE]
                       /\ out' = [out EXCEPT ![c] = ""]

SuccessLoad(c, a) ==
  /\ Dispatch(c, "success", a)
  /\ SuccessUseCase(c, a)
  /\ UNCHANGED <<lock, result, db, produced, sent, createVars, order, providerSessions, timeoutKeys, returnedLive,
                 hookVars>>

\* PaymentFailureUseCase: findByProviderOrderId, FAILED returns true, any other
\* status than PENDING is refused, the session becomes FAILED, markFailed
FailureUseCase(c, a) ==
  IF FindByProviderOrderId(a) = {}
    THEN /\ Throw(c)
         /\ cache' = cache
    ELSE LET p == toDomain(CHOOSE r \in FindByProviderOrderId(a) : TRUE)
             q == updateStatus(p, getProviderSessionById(p, a), "failed")
         IN  /\ cache' = CacheAfterFindByProviderOrderId(a)
             /\ IF p.status = "failed"
                  THEN Return(c)
                ELSE IF p.status # "pending" \/ ~CanTransition(q, "failed")
                  THEN Throw(c)
                  ELSE /\ agg' = [agg EXCEPT ![c] = transitionTo(q, "failed")]
                       /\ pc' = [pc EXCEPT ![c] = "update"]
                       /\ threw' = [threw EXCEPT ![c] = FALSE]
                       /\ out' = [out EXCEPT ![c] = ""]

FailureLoad(c, a) ==
  /\ Dispatch(c, "failure", a)
  /\ FailureUseCase(c, a)
  /\ UNCHANGED <<lock, result, db, produced, sent, createVars, order, providerSessions, timeoutKeys, returnedLive,
                 hookVars>>

\* HandlePaymentTimeoutUseCase: load the payment, nothing to do unless it is
\* PENDING, markExpired
TimeoutUseCase(c, a) ==
  IF FindById(a) = {}
    THEN Throw(c)
    ELSE LET p == toDomain(CHOOSE r \in FindById(a) : TRUE)
         IN  IF p.status # "pending" \/ ~CanTransition(p, "expired")
               THEN Return(c)
               ELSE /\ agg' = [agg EXCEPT ![c] = transitionTo(p, "expired")]
                    /\ pc' = [pc EXCEPT ![c] = "update"]
                    /\ threw' = [threw EXCEPT ![c] = FALSE]
                    /\ out' = [out EXCEPT ![c] = ""]

\* PaymentTimeoutRedisWorker.handleExpiredKey: the payment id is the last
\* segment of the expired key
TimeoutLoad(c, a) ==
  /\ Dispatch(c, "timeout", a)
  /\ TimeoutUseCase(c, a)
  /\ UNCHANGED <<lock, result, db, cache, produced, sent, createVars, order, providerSessions, timeoutKeys,
                 returnedLive, hookVars>>

\* the event each use case publishes
EventOf(o) ==
  CASE o = "success" -> "succeeded"
    [] o \in {"timeout", "sweep"} -> "timeout"
    [] OTHER -> "failed"

\* paymentRepository.update(payment): repo.update({id}, entity)
Update(c) ==
  /\ pc[c] = "update"
  /\ db' = UpdateRows(db, toEntity(agg[c]))
  /\ pc' = [pc EXCEPT ![c] = "recache"]
  /\ UNCHANGED <<calls, nkeys, nids, op, ikey, arg, agg, ret, out, threw, lock, result, cache,
                 produced, sent, createVars, order, providerSessions, timeoutKeys, returnedLive, ingressVars>>

\* paymentRepository.update(payment): the cache entries it rewrites; then
\* ResolvePayment returns and the others publish their event with
\* kafkaProducer.produce and return
UpdateCache(c) ==
  /\ pc[c] = "recache"
  /\ UNCHANGED <<calls, nkeys, nids, op, ikey, arg, lock, result, db,
                 providerSessions, timeoutKeys, returnedLive, ingressVars>>
  /\ cache' = CacheAfterUpdate(toEntity(agg[c]))
  /\ IF op[c] = "resolve"
       THEN /\ pc' = [pc EXCEPT ![c] = "set"]
            /\ UNCHANGED <<produced, sent, createVars, order, ret, out, threw, agg>>
       ELSE \E produceOk \in BOOLEAN :
              IF ~produceOk
                THEN /\ IF op[c] = "cancel" THEN Raise(c) /\ UNCHANGED <<out, agg>> ELSE Throw(c)
                     /\ UNCHANGED <<produced, sent, createVars, order, ret>>
                ELSE /\ produced' = [produced EXCEPT ![<<EventOf(op[c]), agg[c].id>>] = @ + 1]
                     /\ sent' = sent \cup {LifecycleEvent(EventOf(op[c]), agg[c].id, op[c])}
                     /\ UNCHANGED <<createVars, order>>
                     /\ IF op[c] = "cancel"
                          THEN /\ ret' = [ret EXCEPT ![c] =
                                    [paymentId |-> agg[c].id, poid |-> arg[c],
                                     status |-> agg[c].status]]
                               /\ pc' = [pc EXCEPT ![c] = "set"]
                               /\ UNCHANGED <<out, agg, threw>>
                          ELSE /\ ret' = ret
                               /\ Return(c)

\* ------------------------------------------------------------ specification
\* Keys are interchangeable: a caller uses a key that was used before or the
\* first unused one.
UsableKeys == {k \in Keys : k <= nkeys + 1}

StartCreate(c) == \E k \in UsableKeys : CheckGet(c, "create", k, NoId)

Next ==
  \/ \E c \in Procs : StartCreate(c)
  \/ \E c \in Procs : CheckLock(c)
  \/ \E c \in Procs : CreateSession(c)
  \/ \E c \in Procs : CreateSave(c)
  \/ \E c \in Procs : CheckSet(c)
  \/ \E c \in Procs : CheckUnlock(c)
  \/ \E k \in Keys : LockExpire(k)
  \/ \E k \in Keys : ResultExpire(k)
  \/ \E ck \in CacheKeys : CacheExpire(ck)

Spec == Init /\ [][Next]_vars

\* ------------------------------------------------------------------ timeouts
\* the clock reaches expiresAt of a payment: its payments:timeout key, set
\* with TTL expiresAt - now, expires
PassExpiresAt(id) ==
  /\ id \in timeoutKeys
  /\ timeoutKeys' = timeoutKeys \ {id}
  /\ UNCHANGED <<procVars, lock, result, db, cache, produced, sent, createVars, order, providerSessions,
                 returnedLive, ingressVars>>

\* the payments whose payments:timeout key has expired: the cache notifies
\* the subscriber of every service instance, or none
ExpiredKeys == {r.id : r \in db} \ timeoutKeys

\* ---------------------------------------------------- lifecycle specification
\* the payment a successful CreatePayment has stored
StoredPayment ==
  setProviderOrderId(addProviderSession(PaymentCreate(0, CreateKey), NewProviderSession(0)),
                     ProviderOrderId(0))

\* the state after that CreatePayment has returned and its result has expired
LifeInit ==
  /\ calls = 0
  /\ nkeys = 0
  /\ nids = 0
  /\ pc = [c \in Procs |-> "idle"]
  /\ op = [c \in Procs |-> ""]
  /\ ikey = [c \in Procs |-> NoKey]
  /\ arg = [c \in Procs |-> NoId]
  /\ agg = [c \in Procs |-> NoPayment]
  /\ ret = [c \in Procs |-> NoResult]
  /\ out = [c \in Procs |-> ""]
  /\ threw = [c \in Procs |-> FALSE]
  /\ lock = [k \in Keys |-> 0]
  /\ result = [k \in Keys |-> {}]
  /\ db = {toEntity(StoredPayment)}
  /\ cache = [ck \in CacheKeys |->
                IF ck = <<"id", StoredPayment.id>> THEN {toEntity(StoredPayment)} ELSE {}]
  /\ produced = [e \in EventTypes \X PaymentIds |->
                   IF e = <<"initiated", StoredPayment.id>> THEN 1 ELSE 0]
  /\ providerSessions = {<<ProviderOrderId(0), CreateKey>>}
  /\ timeoutKeys = {StoredPayment.id}
  /\ returnedLive = [k \in Keys |-> {}]
  /\ ev = [c \in Procs |-> NoEvent]
  /\ batch = [c \in Procs |-> <<>>]
  /\ processed = {}
  /\ bus = {}
  /\ prov = [c \in Procs |-> ""]
  /\ marked = {}
  /\ paypalCert = FALSE
  /\ cr = [c \in Procs |-> NoRequest]
  /\ strategy = NoStrategy
  /\ order = [c \in Procs |-> NoOrder]
  /\ sent = {[type |-> "initiated", id |-> StoredPayment.id, source |-> "payment-service"]}

\* provider order ids a request names: the stored payment's and another one
RequestOrderIds == {ProviderOrderId(0), ProviderOrderId(1)}

StartResolve(c) == \E k \in UsableKeys, a \in RequestOrderIds : CheckGet(c, "resolve", k, a)

StartCancel(c) == \E k \in UsableKeys, a \in RequestOrderIds : CheckGet(c, "cancel", k, a)

NextLife ==
  \/ \E c \in Procs : StartResolve(c)
  \/ \E c \in Procs : StartCancel(c)
  \/ \E c \in Procs : CheckLock(c)
  \/ \E c \in Procs : ResolveLoad(c)
  \/ \E c \in Procs : CancelLoad(c)
  \/ \E c \in Procs, a \in RequestOrderIds : SuccessLoad(c, a)
  \/ \E c \in Procs, a \in RequestOrderIds : FailureLoad(c, a)
  \/ \E id \in PaymentIds : PassExpiresAt(id)
  \/ \E c \in Procs, id \in ExpiredKeys : TimeoutLoad(c, id)
  \/ \E c \in Procs : Update(c)
  \/ \E c \in Procs : UpdateCache(c)
  \/ \E c \in Procs : CheckSet(c)
  \/ \E c \in Procs : CheckUnlock(c)
  \/ \E k \in Keys : LockExpire(k)
  \/ \E k \in Keys : ResultExpire(k)
  \/ \E ck \in CacheKeys : CacheExpire(ck)

SpecLife == LifeInit /\ [][NextLife]_vars

\* ------------------------------------------------------ session specification
\* CreatePayment followed by the calls that move the payment it stored: a
\* payment gets its provider session in CreatePayment, and Resolve, Cancel,
\* Success and Failure look that session up
NextSession ==
  \/ \E c \in Procs : StartCreate(c)
  \/ \E c \in Procs : StartResolve(c)
  \/ \E c \in Procs : StartCancel(c)
  \/ \E c \in Procs : CheckLock(c)
  \/ \E c \in Procs : CreateSession(c)
  \/ \E c \in Procs : CreateSave(c)
  \/ \E c \in Procs : ResolveLoad(c)
  \/ \E c \in Procs : CancelLoad(c)
  \/ \E c \in Procs, a \in RequestOrderIds : SuccessLoad(c, a)
  \/ \E c \in Procs, a \in RequestOrderIds : FailureLoad(c, a)
  \/ \E c \in Procs : Update(c)
  \/ \E c \in Procs : UpdateCache(c)
  \/ \E c \in Procs : CheckSet(c)
  \/ \E c \in Procs : CheckUnlock(c)
  \/ \E k \in Keys : ResultExpire(k)

SpecSession == Init /\ [][NextSession]_vars

\* ------------------------------------------------------------ webhook consumer
\* the provider events the bus carries, all for the stored payment
EventIds == {1, 2, 3}

\* handleStripe, handlePaypal, handleRazorpay: the use case an event type is
\* dispatched to ("none": the type is logged as unhandled)
DispatchOf(e) ==
  CASE e = 1 -> "success"
    [] e = 2 -> "failure"
    [] OTHER -> "none"

\* eventProcessRepository.isProcessed: redis.get('event:processed:' + id) === '1'
isProcessed(e) == e \in processed

\* KafkaController.handlePaymentProviderEvent, PaymentEventConsumer.handle: the
\* bus delivers the event with providerEventId e, which the provider's handler
\* dispatches to o; an event that is processed is skipped
HandleStart(c, e, o) ==
  /\ FreeSlot(c)
  /\ op' = [op EXCEPT ![c] = o]
  /\ ev' = [ev EXCEPT ![c] = e]
  /\ batch' = [batch EXCEPT ![c] = <<>>]
  /\ ikey' = [ikey EXCEPT ![c] = NoKey]
  /\ arg' = [arg EXCEPT ![c] = StoredPayment.poid]
  /\ ret' = [ret EXCEPT ![c] = NoResult]
  /\ agg' = [agg EXCEPT ![c] = NoPayment]
  /\ threw' = [threw EXCEPT ![c] = FALSE]
  /\ IF isProcessed(e)
       THEN /\ pc' = [pc EXCEPT ![c] = "done"]
            /\ out' = [out EXCEPT ![c] = "skipped"]
       ELSE /\ pc' = [pc EXCEPT ![c] = "dispatch"]
            /\ out' = [out EXCEPT ![c] = ""]
  /\ UNCHANGED <<nkeys, nids, lock, result, db, cache, produced, sent, createVars, order, providerSessions,
                 timeoutKeys, returnedLive, processed, bus, marked, paypalCert>>

\* a delivery counted among the requests of the behaviour
HandleEvent(c, e, o) ==
  /\ calls < MaxCalls
  /\ calls' = calls + 1
  /\ HandleStart(c, e, o)

\* a delivery of one of the events of the stored payment
HandleIsProcessed(c, e) ==
  /\ HandleEvent(c, e, DispatchOf(e))
  /\ prov' = prov

\* PaymentEventConsumer.handle: the switch on the provider and the use case the
\* provider's handler dispatches, inside try
HandleDispatch(c) ==
  /\ pc[c] = "dispatch"
  /\ UNCHANGED <<calls, nkeys, nids, op, ikey, arg, ret, lock, result, db, produced, sent, createVars, order,
                 providerSessions, timeoutKeys, returnedLive, ingressVars>>
  /\ CASE op[c] = "success" -> SuccessUseCase(c, arg[c])
       [] op[c] = "failure" -> FailureUseCase(c, arg[c])
       [] OTHER -> /\ pc' = [pc EXCEPT ![c] = "mark"]
                   /\ UNCHANGED <<agg, threw, out, cache>>

\* eventProcessRepository.markAsProcessed: redis.set(key, '1', 30 days)
HandleMark(c) ==
  /\ pc[c] = "mark"
  /\ processed' = processed \cup {ev[c]}
  /\ marked' = marked \cup {<<prov[c], ev[c]>>}
  /\ pc' = [pc EXCEPT ![c] = "done"]
  /\ out' = [out EXCEPT ![c] = "ok"]
  /\ UNCHANGED <<calls, nkeys, nids, op, ikey, arg, agg, ret, threw, lock, result, db, cache,
                 produced, sent, createVars, order, providerSessions, timeoutKeys, returnedLive, ev, batch, bus, prov,
                 paypalCert>>

NextHook ==
  \/ \E c \in Procs, e \in EventIds : HandleIsProcessed(c, e)
  \/ \E c \in Procs : HandleDispatch(c)
  \/ \E c \in Procs : Update(c)
  \/ \E c \in Procs : UpdateCache(c)
  \/ \E c \in Procs : HandleMark(c)
  \/ \E ck \in CacheKeys : CacheExpire(ck)

SpecHook == LifeInit /\ [][NextHook]_vars

\* the provider sends the event of the captured payment again and again (its
\* webhook retries) and every delivery reaches the consumer; a handler that
\* has started goes on to its end, a cache entry lives for its TTL and no
\* longer, and the bus does not refuse a publish for ever
SuccessEvent == 1

Redeliver(c) ==
  /\ calls' = calls
  /\ HandleStart(c, SuccessEvent, DispatchOf(SuccessEvent))
  /\ prov' = prov

Published(c) == UpdateCache(c) /\ produced' # produced

NextRedeliver ==
  \/ \E c \in Procs : Redeliver(c)
  \/ \E c \in Procs : HandleDispatch(c)
  \/ \E c \in Procs : Update(c)
  \/ \E c \in Procs : UpdateCache(c)
  \/ \E c \in Procs : HandleMark(c)
  \/ \E ck \in CacheKeys : CacheExpire(ck)

SpecRedeliver ==
  /\ LifeInit
  /\ [][NextRedeliver]_vars
  /\ WF_vars(\E c \in Procs : Redeliver(c))
  /\ \A c \in Procs : /\ WF_vars(HandleDispatch(c))
                       /\ WF_vars(Update(c))
                       /\ WF_vars(UpdateCache(c))
                       /\ WF_vars(HandleMark(c))
  /\ SF_vars(\E c \in Procs : Published(c))
  /\ WF_vars(\E ck \in CacheKeys : CacheExpire(ck))

\* ------------------------------------------------------------ webhook ingress
Providers == {"stripe", "paypal", "razorpay"}

STRIPE_ALLOWED_EVENTS ==
  {"checkout.session.completed", "payment_intent.succeeded", "payment_intent.payment_failed",
   "charge.refunded"}

RAZORPAY_ALLOWED_EVENTS ==
  {"payment.captured", "payment.failed", "order.paid", "refund.processed",
   "subscription.charged"}

\* event types the providers send: one the consumer dispatches and one that
\* is in no allow-list, for each provider
WebhookTypes ==
  [p \in Providers |->
     CASE p = "stripe"   -> {"checkout.session.completed", "customer.created"}
       [] p = "paypal"   -> {"PAYMENT.CAPTURE.COMPLETED", "CHECKOUT.ORDER.APPROVED"}
       [] p = "razorpay" -> {"payment.captured", "invoice.paid"}]

\* providerEventIds the providers send
WebhookEventIds == {1, 2}

\* the normalized PaymentProviderEvent; sig records that the signature of the
\* request that carried it verified (the consumer does not read it)
ProviderEvent(p, id, type, sig) == [provider |-> p, id |-> id, type |-> type, sig |-> sig]

\* what a webhook request leaves alone
webhookRest ==
  <<procVars, lock, result, db, cache, produced, sent, createVars, order, providerSessions,
    timeoutKeys,
    returnedLive, ev, batch, processed, prov, marked>>

\* WebhookService.publish: kafka.produce on the topic of provider events; a
\* produce that fails makes the endpoint answer 400
publish(m) == \E produceOk \in BOOLEAN : bus' = IF produceOk THEN bus \cup {m} ELSE bus

\* handleStripeWebhook: no raw body returns, constructEvent throws on a bad
\* signature and the handler returns, a type outside STRIPE_ALLOWED_EVENTS
\* returns, else the event is normalized and published
StripeWebhook(id, type) ==
  /\ Cardinality(bus) < MaxCalls
  /\ \E hasBody \in BOOLEAN, sigOk \in BOOLEAN :
       IF hasBody /\ sigOk /\ type \in STRIPE_ALLOWED_EVENTS
         THEN publish(ProviderEvent("stripe", id, type, sigOk))
         ELSE bus' = bus
  /\ UNCHANGED <<webhookRest, paypalCert>>

\* verifyPayPalSignature: the cert comes from the cache or is fetched from
\* certUrl and cached for 12 h; a fetch that fails or a signature that does
\* not verify gives false
\* handlePayPalWebhook: an invalid signature returns, else the event is
\* normalized and published, whatever its type
PayPalWebhook(id, type) ==
  /\ Cardinality(bus) < MaxCalls
  /\ \E fetchOk \in BOOLEAN, sigOk \in BOOLEAN :
       LET haveCert == paypalCert \/ fetchOk
       IN  /\ paypalCert' = haveCert
           /\ IF haveCert /\ sigOk
                THEN publish(ProviderEvent("paypal", id, type, sigOk))
                ELSE bus' = bus
  /\ UNCHANGED webhookRest

\* handleRazorpayWebhook: no raw body returns, a signature that differs from
\* the HMAC of the raw body returns, a body that is no JSON returns, a type
\* outside RAZORPAY_ALLOWED_EVENTS returns, else the event is normalized and
\* published
RazorpayWebhook(id, type) ==
  /\ Cardinality(bus) < MaxCalls
  /\ \E hasBody \in BOOLEAN, sigOk \in BOOLEAN, parses \in BOOLEAN :
       IF hasBody /\ sigOk /\ parses /\ type \in RAZORPAY_ALLOWED_EVENTS
         THEN publish(ProviderEvent("razorpay", id, type, sigOk))
         ELSE bus' = bus
  /\ UNCHANGED <<webhookRest, paypalCert>>

\* handleStripe, handlePaypal, handleRazorpay: the use case the event type is
\* dispatched to ("none": the type is logged as unhandled)
DispatchOn(p, type) ==
  CASE p = "stripe" /\ type \in {"checkout.session.completed", "payment_intent.succeeded"}
         -> "success"
    [] p = "stripe" /\ type = "payment_intent.payment_failed" -> "failure"
    [] p = "paypal" /\ type = "PAYMENT.CAPTURE.COMPLETED" -> "success"
    [] p = "paypal" /\ type \in {"PAYMENT.CAPTURE.DENIED", "PAYMENT.CAPTURE.FAILED"}
         -> "failure"
    [] p = "razorpay" /\ type \in {"payment.captured", "order.paid"} -> "success"
    [] p = "razorpay" /\ type \in {"payment.failed", "order.failed"} -> "failure"
    [] OTHER -> "none"

\* the bus delivers a published event (at least once) to
\* KafkaController.handlePaymentProviderEvent
Deliver(c, m) ==
  /\ m \in bus
  /\ HandleEvent(c, m.id, DispatchOn(m.provider, m.type))
  /\ prov' = [prov EXCEPT ![c] = m.provider]

NextIngress ==
  \/ \E id \in WebhookEventIds, type \in WebhookTypes["stripe"] : StripeWebhook(id, type)
  \/ \E id \in WebhookEventIds, type \in WebhookTypes["paypal"] : PayPalWebhook(id, type)
  \/ \E id \in WebhookEventIds, type \in WebhookTypes["razorpay"] : RazorpayWebhook(id, type)
  \/ \E c \in Procs, m \in bus : Deliver(c, m)
  \/ \E c \in Procs : HandleDispatch(c)
  \/ \E c \in Procs : Update(c)
  \/ \E c \in Procs : UpdateCache(c)
  \/ \E c \in Procs : HandleMark(c)

SpecIngress == LifeInit /\ [][NextIngress]_vars

\* -------------------------------------------------------------------- sweeper
BATCH_SIZE == 50

\* a second payment that CreatePayment has stored, after the first
SecondPayment ==
  setProviderOrderId(addProviderSession(PaymentCreate(1, CreateKey + 1), NewProviderSession(1)),
                     ProviderOrderId(1))

\* the state after the two CreatePayment calls have returned
SweepInit ==
  /\ calls = 0
  /\ nkeys = 0
  /\ nids = 1
  /\ pc = [c \in Procs |-> "idle"]
  /\ op = [c \in Procs |-> ""]
  /\ ikey = [c \in Procs |-> NoKey]
  /\ arg = [c \in Procs |-> NoId]
  /\ agg = [c \in Procs |-> NoPayment]
  /\ ret = [c \in Procs |-> NoResult]
  /\ out = [c \in Procs |-> ""]
  /\ threw = [c \in Procs |-> FALSE]
  /\ lock = [k \in Keys |-> 0]
  /\ result = [k \in Keys |-> {}]
  /\ db = {toEntity(StoredPayment), toEntity(SecondPayment)}
  /\ cache = [ck \in CacheKeys |->
                IF ck = <<"id", StoredPayment.id>> THEN {toEntity(StoredPayment)}
                ELSE IF ck = <<"id", SecondPayment.id>> THEN {toEntity(SecondPayment)}
                ELSE {}]
  /\ produced = [e \in EventTypes \X PaymentIds |->
                   IF e \in {<<"initiated", StoredPayment.id>>, <<"initiated", SecondPayment.id>>}
                     THEN 1 ELSE 0]
  /\ providerSessions = {<<ProviderOrderId(0), CreateKey>>, <<ProviderOrderId(1), CreateKey + 1>>}
  /\ timeoutKeys = {StoredPayment.id, SecondPayment.id}
  /\ returnedLive = [k \in Keys |-> {}]
  /\ ev = [c \in Procs |-> NoEvent]
  /\ batch = [c \in Procs |-> <<>>]
  /\ processed = {}
  /\ bus = {}
  /\ prov = [c \in Procs |-> ""]
  /\ marked = {}
  /\ paypalCert = FALSE
  /\ cr = [c \in Procs |-> NoRequest]
  /\ strategy = NoStrategy
  /\ order = [c \in Procs |-> NoOrder]
  /\ sent = {[type |-> "initiated", id |-> p.id, source |-> "payment-service"] :
              p \in {StoredPayment, SecondPayment}}

\* ORDER BY expiresAt ASC: expiresAt is the time of creation plus ten minutes,
\* and payment ids are numbered in the order of creation
RECURSIVE OrderByExpiresAt(_)
OrderByExpiresAt(S) ==
  IF S = {} THEN <<>>
  ELSE LET first == CHOOSE x \in S : \A y \in S : x[2] <= y[2]
       IN  <<first>> \o OrderByExpiresAt(S \ {first})

\* LIMIT n
Take(seq, n) == SubSeq(seq, 1, IF Len(seq) < n THEN Len(seq) ELSE n)

\* findExpiredPendingPayments(now, limit): status = PENDING and expiresAt <= now
findExpiredPendingPayments(limit) ==
  Take(OrderByExpiresAt({r.id : r \in {q \in db : q.status = "pending" /\ q.id \in ExpiredKeys}}),
       limit)

\* sweepExpiredPayments: the query; nothing found ends the run
SweepStart(c) ==
  /\ FreeSlot(c)
  /\ op' = [op EXCEPT ![c] = "sweep"]
  /\ ev' = [ev EXCEPT ![c] = NoEvent]
  /\ batch' = [batch EXCEPT ![c] = findExpiredPendingPayments(BATCH_SIZE)]
  /\ ikey' = [ikey EXCEPT ![c] = NoKey]
  /\ arg' = [arg EXCEPT ![c] = NoId]
  /\ ret' = [ret EXCEPT ![c] = NoResult]
  /\ agg' = [agg EXCEPT ![c] = NoPayment]
  /\ threw' = [threw EXCEPT ![c] = FALSE]
  /\ IF findExpiredPendingPayments(BATCH_SIZE) = <<>>
       THEN /\ pc' = [pc EXCEPT ![c] = "done"]
            /\ out' = [out EXCEPT ![c] = "ok"]
       ELSE /\ pc' = [pc EXCEPT ![c] = "next"]
            /\ out' = [out EXCEPT ![c] = ""]
  /\ UNCHANGED <<nkeys, nids, lock, result, db, cache, produced, sent, createVars, order, providerSessions,
                 timeoutKeys, returnedLive, hookVars>>

\* a sweeper run, counted among the requests of the behaviour
SweepQuery(c) ==
  /\ calls < MaxCalls
  /\ calls' = calls + 1
  /\ SweepStart(c)

\* @Cron(EVERY_MINUTE): a sweeper run of the schedule, which never ends
CronSweep(c) ==
  /\ calls' = calls
  /\ SweepStart(c)

\* sweepExpiredPayments: the next payment of the batch, handleTimeoutUseCase
\* inside try
SweepNext(c) ==
  /\ pc[c] = "next"
  /\ batch' = [batch EXCEPT ![c] = Tail(@)]
  /\ arg' = [arg EXCEPT ![c] = Head(batch[c])]
  /\ UNCHANGED <<calls, nkeys, nids, op, ikey, ret, lock, result, db, cache, produced, sent, createVars, order,
                 providerSessions, timeoutKeys, returnedLive, ev, hookVars>>
  /\ TimeoutUseCase(c, Head(batch[c]))

NextSweep ==
  \/ \E id \in PaymentIds : PassExpiresAt(id)
  \/ \E c \in Procs : SweepQuery(c)
  \/ \E c \in Procs : SweepNext(c)
  \/ \E c \in Procs, id \in ExpiredKeys : TimeoutLoad(c, id)
  \/ \E c \in Procs, a \in RequestOrderIds : SuccessLoad(c, a)
  \/ \E c \in Procs : Update(c)
  \/ \E c \in Procs : UpdateCache(c)
  \/ \E ck \in CacheKeys : CacheExpire(ck)

SpecSweep == SweepInit /\ [][NextSweep]_vars

\* the sweepers of the service instances running every minute for ever while
\* the cache delivers no expiration notification; every sweeper run that has
\* started goes on to its end
NextCron ==
  \/ \E id \in PaymentIds : PassExpiresAt(id)
  \/ \E c \in Procs : CronSweep(c)
  \/ \E c \in Procs : SweepNext(c)
  \/ \E c \in Procs : Update(c)
  \/ \E c \in Procs : UpdateCache(c)

SpecCron ==
  /\ SweepInit
  /\ [][NextCron]_vars
  /\ WF_vars(\E c \in Procs : CronSweep(c))
  /\ WF_vars(\E c \in Procs : SweepNext(c))
  /\ WF_vars(\E c \in Procs : Update(c))
  /\ WF_vars(\E c \in Procs : UpdateCache(c))

\* the sweeper running every minute for ever on the payment CreatePayment has
\* stored, whose expiresAt comes, while clients may call ResolvePayment;
\* every request that has started goes on to its end
NextTerminal ==
  \/ \E id \in PaymentIds : PassExpiresAt(id)
  \/ \E c \in Procs : CronSweep(c)
  \/ \E c \in Procs : SweepNext(c)
  \/ \E c \in Procs : StartResolve(c)
  \/ \E c \in Procs : CheckLock(c)
  \/ \E c \in Procs : ResolveLoad(c)
  \/ \E c \in Procs : Update(c)
  \/ \E c \in Procs : UpdateCache(c)
  \/ \E c \in Procs : CheckSet(c)
  \/ \E c \in Procs : CheckUnlock(c)

SpecTerminal ==
  /\ LifeInit
  /\ [][NextTerminal]_vars
  /\ WF_vars(\E id \in PaymentIds : PassExpiresAt(id))
  /\ WF_vars(\E c \in Procs : CronSweep(c))
  /\ \A c \in Procs : /\ WF_vars(SweepNext(c))
                       /\ WF_vars(CheckLock(c))
                       /\ WF_vars(ResolveLoad(c))
                       /\ WF_vars(Update(c))
                       /\ WF_vars(UpdateCache(c))
                       /\ WF_vars(CheckSet(c))
                       /\ WF_vars(CheckUnlock(c))

\* --------------------------------------- CreatePayment: adapter and amounts
\* order.currency of the orders requests are made for
Currencies == {"USD", "INR"}

\* order.amount and order.items[].price, in the subunit of the currency
OrderAmounts == {300, 301}
OrderItems == {<<300>>, <<100, 200>>, <<100, 100>>}

\* the rates ExchangeRateService.getRate answers with, as <<numerator, denominator>>
FxRates == {<<1, 2>>, <<1, 80>>}
NoRate == <<0, 1>>

allowableDiff == 1

\* retry(..., { retries: 2 })
Retries == 2

\* the strategies that have an isCurrencySupported method
HasIsCurrencySupported(p) == p \in {"paypal", "razorpay"}

\* supportedCurrencies of the strategy
SupportedCurrencies(p) ==
  CASE p = "paypal" -> {"USD", "EUR", "GBP", "CAD", "AUD", "JPY"}
    [] p = "razorpay" -> {"INR", "USD"}
    [] OTHER -> {}

\* Math.round((amount / 100) * fxRate * 100)
normalizeAndConvertCurrency(amountInSourceSubunit, fxRate) ==
  (2 * amountInSourceSubunit * fxRate[1] + fxRate[2]) \div (2 * fxRate[2])

Abs(x) == IF x < 0 THEN -x ELSE x

\* orderItemsDetails.reduce: quantity is '1' for every item
RECURSIVE totalOrderItemsAmount(_)
totalOrderItemsAmount(values) ==
  IF values = <<>> THEN 0
  ELSE Head(values) * 1 + totalOrderItemsAmount(Tail(values))

\* from the currency conversion to the first strategyContext.createPayment: no
\* await in between, the call goes to the strategy the context holds now
Prepared(q, fxRate, converted, current) ==
  LET money == IF converted THEN normalizeAndConvertCurrency(q.amount, fxRate) ELSE q.amount
      cur == IF converted THEN "USD" ELSE q.currency
      total == totalOrderItemsAmount(
                 [i \in DOMAIN q.items |-> normalizeAndConvertCurrency(q.items[i], fxRate)])
  IN  IF Abs(money - total) > allowableDiff
        THEN [q EXCEPT !.pc = "failed", !.error = "items_mismatch", !.money = money,
                       !.moneyCurrency = cur, !.total = total]
        ELSE [q EXCEPT !.pc = "adapter", !.money = money, !.moneyCurrency = cur,
                       !.total = total, !.via = current]

\* the callback up to its first await after the repository read: setStrategy,
\* isCurrencySupported and, for a supported currency, the call of the adapter
CrStart(r) ==
  /\ cr[r].pc = "idle"
  /\ \E p \in Providers, cur \in Currencies, amount \in OrderAmounts, items \in OrderItems :
       LET q == [NoRequest EXCEPT !.provider = p, !.currency = cur, !.amount = amount,
                                  !.items = items]
       IN  /\ strategy' = p
           /\ cr' = [cr EXCEPT ![r] =
                       IF ~HasIsCurrencySupported(p)
                         THEN [q EXCEPT !.pc = "failed", !.error = "type_error"]
                       ELSE IF cur \in SupportedCurrencies(p)
                         THEN Prepared(q, <<1, 1>>, FALSE, p)
                       ELSE [q EXCEPT !.pc = "rate"]]
  /\ UNCHANGED <<procVars, lock, result, db, cache, produced, sent, providerSessions,
                 timeoutKeys, returnedLive, ingressVars, order>>

\* exchangeRateService.getRate has answered
CrRate(r) ==
  /\ cr[r].pc = "rate"
  /\ \E fxRate \in FxRates \cup {NoRate} :
       cr' = [cr EXCEPT ![r] =
                IF fxRate = NoRate
                  THEN [@ EXCEPT !.pc = "failed", !.error = "conversion"]
                  ELSE Prepared(@, fxRate, TRUE, strategy)]
  /\ UNCHANGED <<procVars, lock, result, db, cache, produced, sent, providerSessions,
                 timeoutKeys, returnedLive, ingressVars, strategy, order>>

\* what the provider may report as the amount of the order it created
RazorpayAnswers(amount) == {amount, amount + 1, amount + 2}

\* the providerAmount of the value createPayment of a strategy returns: none
\* from Stripe, the requested amount from PayPal, order.amount from Razorpay
AdapterResponse(via, money, answer) ==
  CASE via = "paypal" -> {money}
    [] via = "razorpay" -> {answer}
    [] OTHER -> {}

\* Razorpay refuses a currency it does not support and an amount of zero
AdapterRefuses(via, money, cur) ==
  via = "razorpay" /\ (cur \notin SupportedCurrencies("razorpay") \/ money <= 0)

\* the adapter answers; after a failure retry calls strategyContext.createPayment
\* again, which goes to the strategy the context holds then
CrAdapter(r) ==
  /\ cr[r].pc = "adapter"
  /\ \E ok \in BOOLEAN, answer \in RazorpayAnswers(cr[r].money) :
       cr' = [cr EXCEPT ![r] =
                IF ~ok \/ AdapterRefuses(@.via, @.money, @.moneyCurrency)
                  THEN IF @.tries < Retries
                         THEN [@ EXCEPT !.tries = @ + 1, !.via = strategy]
                         ELSE [@ EXCEPT !.pc = "failed", !.error = "provider"]
                  ELSE [@ EXCEPT !.pc = "created",
                                 !.response = AdapterResponse(cr[r].via, cr[r].money, answer)]]
  /\ UNCHANGED <<procVars, lock, result, db, cache, produced, sent, providerSessions,
                 timeoutKeys, returnedLive, ingressVars, strategy, order>>

\* the second amount check, skipped for a response without providerAmount
ProviderAmountMismatch(response, total, money) ==
  /\ response # {}
  /\ \E providerSessionAmount \in response :
       \/ Abs(providerSessionAmount - total) > allowableDiff
       \/ Abs(providerSessionAmount - money) > allowableDiff

\* Number(paymentResponse?.providerAmount)
Number(response) == IF response = {} THEN NaN ELSE CHOOSE n \in response : TRUE

\* the amount check on the response, new PaymentProviderSession and
\* payment.addProviderSession on the payment that is saved next
CrCheck(r) ==
  /\ cr[r].pc = "created"
  /\ cr' = [cr EXCEPT ![r] =
              IF ProviderAmountMismatch(@.response, @.total, @.money)
                THEN [@ EXCEPT !.pc = "failed", !.error = "provider_mismatch"]
                ELSE [@ EXCEPT !.pc = "done", !.providerAmount = Number(cr[r].response)]]
  /\ UNCHANGED <<procVars, lock, result, db, cache, produced, sent, providerSessions,
                 timeoutKeys, returnedLive, ingressVars, strategy, order>>

NextProvider ==
  \E r \in Procs : CrStart(r) \/ CrRate(r) \/ CrAdapter(r) \/ CrCheck(r)

SpecProvider == Init /\ [][NextProvider]_vars

\* =================================================================== claims
\* steps of a request that are inside the callback of check()
FnSteps == {"session", "save", "load", "update", "recache"}

\* C3: for every idempotency key at most one execution of the callback is in
\* flight at any time, also when an execution outlives the 30 s lock TTL.
C3_OneInFlightPerKey ==
  \A k \in Keys : Cardinality({c \in Procs : ikey[c] = k /\ pc[c] \in FnSteps}) <= 1

\* C4: a caller whose result lookup missed and who then gets the lock does not
\* run the callback when a result for its key is stored already.
C4_NoExecutionOverStoredResult ==
  [][\A c \in Procs :
       (pc[c] = "lock" /\ pc'[c] \in FnSteps) => result[ikey[c]] = {}]_vars

\* C5: from the moment check() has returned a result for a key until that
\* result expires, a call with that key that starts finds a stored result and
\* it is the returned one: the call returns it and does not run the callback.
C5_LaterCallReturnsReturnedResult ==
  \A k \in Keys : \A r \in returnedLive[k] :
    /\ result[k] # {}
    /\ \A s \in result[k] : Truthy(s) /\ JSONparse(s) = r

\* C6: when the callback raises, no step of that request from the raise to its
\* end writes a result, and its last step leaves the lock of its key free and
\* hands the exception to the caller.
C6_RaiseReleasesLockStoresNothing ==
  [][\A c \in Procs :
       (threw'[c] /\ pc'[c] # pc[c]) =>
         /\ result' = result
         /\ pc'[c] = "done" => (lock'[ikey[c]] = 0 /\ out'[c] = "raised")]_vars

\* C6 witness: a request raised and ended, and a later request with the same
\* key holds the lock and runs the callback.
C6_Witness ==
  \E c1, c2 \in Procs :
    /\ pc[c1] = "done" /\ threw[c1]
    /\ ikey[c1] \in Keys /\ ikey[c2] = ikey[c1]
    /\ pc[c2] \in FnSteps /\ lock[ikey[c2]] = c2

\* C7: of the CreatePayment calls with one key, at most one executes and
\* returns a session of its own; every other one gets InProgress or the
\* cached result.
C7_OneSessionReturnedPerKey ==
  \A k \in Keys : Cardinality(returnedLive[k]) <= 1

\* C8: the store holds at most one Payment per idempotency key.
C8_OnePaymentPerKey ==
  \A k \in Keys : Cardinality({r \in db : r.key = k}) <= 1

\* C8 witness: a request is about to insert a second Payment with a key that
\* another Payment already carries.
C8_Witness ==
  \E c \in Procs :
    /\ pc[c] = "save"
    /\ \E r \in db : r.key = agg[c].key /\ r.id # agg[c].id

\* C1: once the stored status of a payment is SUCCESS, FAILED, CANCELLED or
\* EXPIRED, no step of any request changes it again.
C1_TerminalStatusNeverChanges ==
  [][\A r \in db : isTerminalState(r) =>
       \E q \in db' : q.id = r.id /\ q.status = r.status]_vars

\* C2: every change of the stored status of a payment goes along one of the
\* seven edges of the lifecycle.
C2_StatusChangesFollowEdges ==
  [][LET edges == {<<"pending", "resolved">>, <<"pending", "cancelled">>,
                   <<"pending", "expired">>, <<"pending", "failed">>,
                   <<"pending", "success">>, <<"resolved", "success">>,
                   <<"resolved", "failed">>}
     IN  \A r \in db, q \in db' :
           (q.id = r.id /\ q.status # r.status) => <<r.status, q.status>> \in edges]_vars

\* C9: SuccessPayment called for a payment that is stored as SUCCESS returns
\* OK, writes nothing and publishes nothing.
C9_SuccessOnSuccessIsNoOp ==
  [][\A c \in Procs :
       (/\ calls' # calls
        /\ FreeSlot(c)
        /\ op'[c] = "success"
        /\ \E r \in db : r.poid = arg'[c] /\ r.status = "success")
       => (pc'[c] = "done" /\ out'[c] = "ok" /\ db' = db /\ produced' = produced)]_vars

\* C10: when one ResolvePayment and one SuccessPayment for the same PENDING
\* payment have both returned, in whatever way their steps interleaved, the
\* payment is stored as SUCCESS and OrderPaymentSucceeded was published once.
C10_ResolveAndSuccessEndInSuccess ==
  (/\ calls = 2
   /\ \E c1, c2 \in Procs :
        /\ op[c1] = "resolve" /\ pc[c1] = "done" /\ out[c1] = "ok"
        /\ op[c2] = "success" /\ pc[c2] = "done" /\ out[c2] = "ok")
  => /\ \A r \in db : r.id = StoredPayment.id => r.status = "success"
     /\ produced[<<"succeeded", StoredPayment.id>>] = 1

\* C11: SuccessPayment followed by ResolvePayment, one after the other on the
\* same PENDING payment and both returning, leave what ResolvePayment followed
\* by SuccessPayment leaves: the payment stored as SUCCESS and one
\* OrderPaymentSucceeded published.
C11_SuccessThenResolveEndsAsResolveThenSuccess ==
  (/\ calls = 2
   /\ \A c \in Procs : c # 1 => pc[c] = "idle"
   /\ op[1] = "resolve" /\ pc[1] = "done" /\ out[1] = "ok"
   /\ produced[<<"succeeded", StoredPayment.id>>] = 1)
  => \A r \in db : r.id = StoredPayment.id => r.status = "success"

\* C12: for every provider event the consumer dispatches SuccessPayment or
\* FailurePayment at most once, redeliveries and concurrent deliveries
\* included: a delivery dispatches the use case for an event only when no
\* other dispatch for that event is running or has completed without raising
\* (a dispatch that completed without raising has set the processed key).
C12_EventDispatchedAtMostOnce ==
  [][\A c \in Procs :
       (/\ pc[c] = "dispatch" /\ pc'[c] # "dispatch"
        /\ op[c] \in {"success", "failure"})
       => /\ ~isProcessed(ev[c])
          /\ \A d \in Procs \ {c} :
               ~(ev[d] = ev[c] /\ pc[d] \in {"update", "recache", "mark"})]_vars

\* C13: the processed key of an event is set only by a delivery whose use case
\* has completed without raising, and a delivery whose use case raised writes
\* no processed key: it ends without reaching markAsProcessed.
C13_ProcessedOnlyAfterSuccess ==
  [][/\ \A e \in processed' \ processed :
          \E c \in Procs : ev[c] = e /\ pc[c] = "mark" /\ ~threw[c] /\ pc'[c] = "done"
     /\ \A c \in Procs :
          (ev'[c] # NoEvent /\ threw'[c]) =>
            /\ pc'[c] # "mark"
            /\ pc'[c] # pc[c] => processed' = processed]_vars

\* C13 witness: one delivery has completed its use case and marked its event,
\* another delivery's use case raised and its event is not marked.
C13_Witness ==
  \E c, d \in Procs :
    /\ op[c] \in {"success", "failure"} /\ pc[c] = "done" /\ ~threw[c]
    /\ ev[c] \in processed
    /\ ev[d] # NoEvent /\ pc[d] = "done" /\ threw[d]
    /\ ev[d] \notin processed

\* C14: when the use case dispatched for a provider event raises, the delivery
\* ends with the exception handed to the bus consumer (which rethrows it, so
\* that the bus redelivers the event), not as a delivery that was handled.
C14_FailureReachesBusConsumer ==
  [][\A c \in Procs :
       (ev'[c] # NoEvent /\ threw'[c] /\ ~threw[c]) =>
         (pc'[c] = "done" /\ out'[c] = "raised")]_vars

\* C15: the stored status of a payment becomes CANCELLED only from PENDING,
\* and CancelPayment for a payment that is stored with any other status fails
\* at its status check: it raises before the adapter is called, before
\* anything is written and before anything is published.
C15_CancelOnlyFromPending ==
  [][/\ \A r \in db, q \in db' :
          (q.id = r.id /\ q.status = "cancelled" /\ r.status # "cancelled")
            => r.status = "pending"
     /\ \A c \in Procs :
          (/\ pc[c] = "load" /\ op[c] = "cancel" /\ pc'[c] # "load"
           /\ \E r \in db : r.poid = arg[c] /\ r.status # "pending")
          => (threw'[c] /\ pc'[c] = "unlock")]_vars

\* C16: SuccessPayment called for a payment that CancelPayment has stored as
\* CANCELLED is rejected: the call raises at its status check, so it writes
\* nothing and publishes nothing.
C16_SuccessAfterCancelRejected ==
  [][\A c \in Procs :
       (/\ calls' # calls
        /\ FreeSlot(c)
        /\ op'[c] = "success"
        /\ \E r \in db : r.poid = arg'[c] /\ r.status = "cancelled")
       => (pc'[c] = "done" /\ out'[c] = "raised" /\ db' = db /\ produced' = produced)]_vars

\* C17: HandlePaymentTimeout dispatched (by the expiration listener or by the
\* sweeper) for a payment that is stored with a status other than PENDING
\* returns OK, writes nothing and publishes nothing; and the stored status of
\* a payment becomes EXPIRED only from PENDING.
C17_TimeoutOnlyFromPending ==
  [][/\ \A r \in db, q \in db' :
          (q.id = r.id /\ q.status = "expired" /\ r.status # "expired")
            => r.status = "pending"
     /\ \A c \in Procs :
          (/\ \/ (calls' # calls /\ FreeSlot(c) /\ op'[c] = "timeout")
              \/ (pc[c] = "next" /\ pc'[c] # "next")
           /\ \E r \in db : r.id = arg'[c] /\ r.status # "pending")
          => (pc'[c] # "update" /\ ~threw'[c] /\ db' = db /\ produced' = produced)]_vars

\* C18: OrderPaymentTimeout is published at most once for every payment,
\* however the dispatches of HandlePaymentTimeout by the expiration listeners
\* and the sweepers interleave.
C18_TimeoutPublishedAtMostOnce ==
  \A id \in PaymentIds : produced[<<"timeout", id>>] <= 1

\* C20: a sweeper run ends only when it has dispatched HandlePaymentTimeout
\* for every payment of its batch, also when the use case raised for one of
\* them.
C20_SweeperFinishesBatch ==
  \A c \in Procs : (op[c] = "sweep" /\ pc[c] = "done") => batch[c] = <<>>

\* C20 witness: the only request so far is a sweeper run; HandlePaymentTimeout
\* raised for the first payment of its batch (EXPIRED is stored, publishing
\* failed) and the run is handling the second payment.
C20_Witness ==
  /\ calls = 1
  /\ \E c \in Procs :
       /\ op[c] = "sweep" /\ pc[c] \in {"update", "recache"}
       /\ arg[c] = SecondPayment.id
       /\ \E r \in db : r.id = StoredPayment.id /\ r.status = "expired"
       /\ produced[<<"timeout", StoredPayment.id>>] = 0

\* C19: every payment that is PENDING when its expiresAt has passed is
\* eventually stored as EXPIRED with OrderPaymentTimeout published, whether
\* or not an expiration notification is delivered for it, as long as the
\* sweeper keeps running.
C19_PendingPastExpiryEventuallyExpired ==
  \A id \in PaymentIds :
    (id \in ExpiredKeys /\ \E r \in db : r.id = id /\ r.status = "pending")
      ~> (/\ \E r \in db : r.id = id /\ r.status = "expired"
          /\ produced[<<"timeout", id>>] >= 1)

C22_SuccessCapturesSession ==
  [][\A c \in Procs :
       (op'[c] = "success" /\ pc'[c] = "update" /\ pc[c] # "update")
         => \E s \in agg'[c].sessions : s.poid = arg'[c] /\ s.st = "captured"]_vars

\* C23: when CancelPayment moves a payment to CANCELLED, or FailurePayment
\* moves it to FAILED, the provider session of that payment whose provider
\* order id is the one of the call is FAILED.
C23_CancelAndFailureFailSession ==
  [][\A c \in Procs :
       (op'[c] \in {"cancel", "failure"} /\ pc'[c] = "update" /\ pc[c] # "update")
         => \E s \in agg'[c].sessions : s.poid = arg'[c] /\ s.st = "failed"]_vars

\* C24: a ResolvePayment that finds the payment already RESOLVED, or in a
\* terminal status, and whose adapter call returned, leaves the status as it
\* is and does not raise.
C24_ResolveOnResolvedOrTerminalCompletes ==
  [][\A c \in Procs : \A r \in db :
       ( /\ op[c] = "resolve" /\ pc[c] = "load" /\ pc'[c] # "load"
         /\ FindByProviderOrderId(arg[c]) = {r}
         /\ r.status \in {"resolved", "success", "failed", "cancelled", "expired"}
         /\ ret'[c] # NoResult )
         => ~threw'[c] /\ agg'[c].status = r.status]_vars

\* C25: a ResolvePayment whose adapter reported the payment as not verified
\* leaves the status of the payment as it read it and captures no session;
\* RESOLVED and CAPTURED come with a verified resolve only.
C25_ResolveOnlyWhenVerified ==
  [][\A c \in Procs :
       ( /\ op[c] = "resolve" /\ pc[c] = "load" /\ pc'[c] = "update"
         /\ ret'[c].status = "failed" )
         => /\ \A r \in FindByProviderOrderId(arg[c]) : agg'[c].status = r.status
            /\ \A s \in agg'[c].sessions : s.st # "captured"]_vars

\* C26: FailurePayment called for a payment that is stored as FAILED returns
\* OK and publishes nothing; called for a payment stored with any status
\* other than PENDING and FAILED (RESOLVED too) it raises, writes nothing and
\* publishes nothing.
C26_FailureOnFailedOrNonPending ==
  [][\A c \in Procs :
       (calls' # calls /\ FreeSlot(c) /\ op'[c] = "failure")
         => \A r \in db :
              r.poid = arg'[c]
                => /\ r.status = "failed"
                        => (pc'[c] = "done" /\ out'[c] = "ok" /\ db' = db /\ produced' = produced)
                   /\ r.status \notin {"pending", "failed"}
                        => (pc'[c] = "done" /\ out'[c] = "raised" /\ db' = db
                            /\ produced' = produced)]_vars

\* C27: when the adapter's cancel comes back without success, CancelPayment
\* raises: nothing is written, the payment keeps its stored status, no session
\* is changed and nothing is published, then and for the rest of the call.
C27_RefusedCancelChangesNothing ==
  [][\A c \in Procs :
       /\ ( /\ op[c] = "cancel" /\ pc[c] = "load" /\ pc'[c] # "load"
            /\ ret'[c].status = "refused" )
            => /\ threw'[c] /\ pc'[c] = "unlock"
               /\ db' = db /\ produced' = produced /\ agg'[c] = NoPayment
       /\ (op[c] = "cancel" /\ ret[c].status = "refused")
            => threw[c] /\ pc[c] \in {"unlock", "done"}]_vars

\* the provider refused the cancel of the payment a CreatePayment stored; the
\* call has raised and the payment is PENDING
C27_Witness ==
  \E c \in Procs :
    /\ op[c] = "cancel"
    /\ ret[c].status = "refused"
    /\ pc[c] = "done"
    /\ out[c] = "raised"
    /\ \E r \in db : r.poid = arg[c] /\ r.status = "pending" /\ produced[<<"failed", r.id>>] = 0

\* C28: every provider event on the bus was carried by a request whose
\* signature verified and has a type of its provider's allow-list (for PayPal:
\* PAYMENT.CAPTURE.COMPLETED, PAYMENT.CAPTURE.DENIED, PAYMENT.CAPTURE.FAILED);
\* a request that publishes nothing changes neither the store nor the
\* repository cache nor the events published.
C28_PublishedOnlyIfVerifiedAndAllowed ==
  [][LET AllowList ==
           [p \in Providers |->
              CASE p = "stripe"   -> STRIPE_ALLOWED_EVENTS
                [] p = "razorpay" -> RAZORPAY_ALLOWED_EVENTS
                [] p = "paypal"   -> {"PAYMENT.CAPTURE.COMPLETED", "PAYMENT.CAPTURE.DENIED",
                                      "PAYMENT.CAPTURE.FAILED"}]
     IN  /\ \A m \in bus' : m.sig /\ m.type \in AllowList[m.provider]
         /\ (bus' = bus /\ calls' = calls /\ pc' = pc)
              => (db' = db /\ cache' = cache /\ produced' = produced
                  /\ processed' = processed)]_vars

\* C29: a delivery is skipped only when a delivery of an event of the same
\* provider with the same providerEventId has reached markAsProcessed.
C29_ProcessedKeyedByProviderAndEventId ==
  [][\A c \in Procs :
       (calls' # calls /\ FreeSlot(c) /\ ev'[c] # NoEvent /\ out'[c] = "skipped")
         => <<prov'[c], ev'[c]>> \in marked]_vars

\* C30: every Payment a request holds has expiresAt > createdAt, from its
\* construction on and through every operation.
C30_ExpiresAfterCreated ==
  \A c \in Procs : agg[c].id # NoId => IsAfter(agg[c].expiresAt, agg[c].createdAt)

\* C31: every event published on a lifecycle topic (initiated, succeeded,
\* failed, timeout) carries source = payment-service, the failed event that
\* CancelPayment publishes included.
C31_EveryEventCarriesSource ==
  \A m \in sent : m.source = "payment-service"

\* C32: the session CreatePayment attaches to the payment it saves has a
\* providerAmount within 1 of the sum of its line items (unitAmount times
\* quantity); CreatePayment fails and saves nothing otherwise.
C32_SessionAmountMatchesItems ==
  \A r \in Procs :
    cr[r].pc = "done" =>
      /\ cr[r].providerAmount # NaN
      /\ Abs(cr[r].providerAmount - cr[r].total) <= 1

\* C33: a CreatePayment whose order is in none of the statuses created,
\* processing, pending, pending_payment raises; no step of it, from the
\* status check to its end, creates a provider session, stores a payment,
\* sets a timeout key or publishes an event.
C33_InvalidOrderStateChangesNothing ==
  [][\A c \in Procs :
       (/\ op'[c] = "create"
        /\ pc'[c] # pc[c]
        /\ (order'[c] \in {"paid", "cancelled"} \/ order[c] \in {"paid", "cancelled"})) =>
         /\ threw'[c]
         /\ providerSessions' = providerSessions
         /\ db' = db
         /\ timeoutKeys' = timeoutKeys
         /\ produced' = produced
         /\ sent' = sent
         /\ pc'[c] = "done" => out'[c] = "raised"]_vars

\* C33 witness: a CreatePayment has fetched a paid or cancelled order and has
\* raised, and no provider session and no payment exist.
C33_Witness ==
  \E c \in Procs :
    /\ op[c] = "create" /\ pc[c] = "unlock" /\ threw[c]
    /\ order[c] \in {"paid", "cancelled"}
    /\ providerSessions = {} /\ db = {}

\* C34: for every payment at most one terminal lifecycle event (succeeded,
\* failed or timeout) is ever published, under every interleaving of Cancel,
\* Success, Failure and HandlePaymentTimeout.
C34_AtMostOneTerminalEvent ==
  \A id \in PaymentIds :
    produced[<<"succeeded", id>>] + produced[<<"failed", id>>] + produced[<<"timeout", id>>] <= 1

\* C35: whenever the stored status of a payment is SUCCESS, the succeeded
\* event of that payment is eventually published, also when the publish that
\* follows the update fails and the provider delivers its event again.
C35_SuccessEventuallyPublished ==
  \A id \in PaymentIds :
    (\E r \in db : r.id = id /\ r.status = "success") ~> (produced[<<"succeeded", id>>] >= 1)

\* C36: every stored payment eventually has a terminal status (SUCCESS,
\* FAILED, CANCELLED or EXPIRED): none stays PENDING or RESOLVED for ever
\* while the sweeper keeps running.
C36_EveryPaymentReachesTerminal ==
  \A id \in PaymentIds :
    (\E r \in db : r.id = id)
      ~> (\E r \in db : r.id = id /\ r.status \in {"success", "failed", "cancelled", "expired"})

\* C37: the initiated event of a payment is published before any succeeded,
\* failed or timeout event of that payment, under every interleaving of
\* CreatePayment with the webhook, cancel and timeout processing.
C37_InitiatedBeforeTerminalEvents ==
  \A id \in PaymentIds :
    (\E t \in {"succeeded", "failed", "timeout"} : produced[<<t, id>>] >= 1)
      => produced[<<"initiated", id>>] >= 1

\* C38: a CreatePayment for provider P creates its session through the
\* adapter of P, while CreatePayment requests for other providers are in
\* flight on the same instance.
C38_SessionThroughOwnAdapter ==
  \A r \in Procs :
    cr[r].pc \in {"adapter", "created", "done"} => cr[r].via = cr[r].provider

\* C39: when paymentRepository.update(p) has completed,
\* findByProviderOrderId for the provider order id of p returns p with the
\* status that was stored, never an older cached one.
C39_ReadAfterUpdateSeesUpdate ==
  [][\A c \in Procs :
       (pc[c] = "recache" /\ pc'[c] # "recache") =>
         LET ck == <<"poid", agg[c].poid>>
             found == IF cache'[ck] # {} THEN cache'[ck]
                      ELSE {r \in db' : r.poid = agg[c].poid}
         IN  \A e \in found : e.status = agg[c].status]_vars

\* C40: the release of the idempotency lock at the end of an execution never
\* removes a lock that a different caller holds for the same key.
C40_UnlockKeepsLockOfOthers ==
  [][\A c \in Procs :
       (/\ pc[c] = "unlock" /\ pc'[c] = "done"
        /\ lock[ikey[c]] \notin {0, c}) =>
         lock'[ikey[c]] = lock[ikey[c]]]_vars

====
